---- MODULE Spec2Model ----
(***************************************************************************)
(* The conversation controller of src/types.ts (the App component): the    *)
(* status state machine, the session promise, the audio resources held in  *)
(* refs, the playback source set and the transcript buffers, driven by the *)
(* user's start/stop, by the transport callbacks (onopen, onmessage,       *)
(* onerror, onclose) and by the continuations of its awaits.               *)
(*                                                                         *)
(* All handlers run on one event loop: every action below is one task (or  *)
(* one task together with the microtasks it leaves behind).  A suspension  *)
(* point of the code (await getUserMedia, await of a pending session       *)
(* promise, await decodeAudioData) splits a handler into two actions.      *)
(* 0 stands for null in every ref.                                         *)
(***************************************************************************)
EXTENDS Integers, Sequences, FiniteSets, TLC

\* ------------------------------------------------------------------ bounds
MaxConv == 2        \* start() calls in one run
MaxSingle == 1      \* start() calls in one run of SpecSingle
MaxStops == 2       \* stop() invocations awaiting one session promise
MaxSrc == 1         \* audio chunks handed to decodeAudioData in one run
MaxChunks == 3      \* the same in a run of SpecAudio or SpecOrder
MaxDur == 1         \* duration of a decoded chunk
MaxClock == 1       \* readings of the output context's currentTime
MaxCapture == 2     \* blocks of microphone audio captured in one run
MaxChars == 4       \* characters held in the open buffers and the transcript log

Conv == 1..MaxConv
InDeltas == {<<>>, <<"a">>, <<"b">>, <<" ">>}
OutDeltas == {<<>>, <<"b">>, <<" ">>}

VARIABLES
  status,                         \* useState<Status>
  transcript,                     \* useState<TranscriptEntry[]>
  errorMessage,                   \* useState<string>: "" or the kind of message
  sessionPromiseRef,              \* 0 or the conversation whose promise it holds
  inputAudioContextRef,           \* 0 or the conversation that created it
  outputAudioContextRef,
  mediaStreamRef,
  scriptProcessorRef,
  sourcesRef,                     \* set of source ids
  nextStartTimeRef,
  currentInputTranscriptionRef,   \* sequence of characters
  currentOutputTranscriptionRef,
  mounted,                        \* the component is mounted
  nConv,                          \* conversations started so far
  phase,                          \* per conversation: position of startConversation
  closureStatus,                  \* per conversation: status captured by its closure
  handle,                         \* per conversation: state of its session promise
  sess,                           \* per conversation: state of its transport
  stopsPending,                   \* per conversation: stop() calls awaiting its promise
  inflight,                       \* onmessage handlers suspended in decodeAudioData
  endedPending,                   \* stopped sources whose 'ended' event is queued
  liveStreams,                    \* microphone streams with running tracks
  liveProcs,                      \* script processors still connected
  openContexts,                   \* audio contexts not closed: <<conv, "in"|"out">>
  srcCount,                       \* sources created so far
  clock,                          \* outputAudioContext.currentTime
  uncaught,                       \* an exception or rejection nobody handled
  lastEnd,                        \* where the chunk scheduled last ends on the
                                  \* playback timeline; 0 after stopAllPlayback
  captured,                       \* blocks captured by onaudioprocess so far
  outbox,                         \* per conversation: the blocks whose send waits
                                  \* for its session promise, <<processor, block>>
  sentOn,                         \* per conversation: the blocks sent on its session
  closeCalls,                     \* per conversation: calls of session.close()
  turn,                           \* the deltas of the open turn in arrival order, per
                                  \* speaker, or of the turn just sealed
  lastEv                          \* the handler that ran last, and what it completed

progVars == <<status, transcript, errorMessage, sessionPromiseRef,
              currentInputTranscriptionRef, currentOutputTranscriptionRef>>
resVars == <<inputAudioContextRef, outputAudioContextRef, mediaStreamRef,
             scriptProcessorRef, sourcesRef, nextStartTimeRef, endedPending,
             liveStreams, liveProcs, openContexts, lastEnd>>
envVars == <<mounted, nConv, phase, closureStatus, handle, sess, stopsPending,
             inflight, srcCount, clock, uncaught, turn, lastEv>>
sendVars == <<captured, outbox, sentOn>>
vars == <<progVars, resVars, envVars, sendVars, closeCalls>>

\* ------------------------------------------------------------ pure helpers
Max(a, b) == IF a >= b THEN a ELSE b

RECURSIVE TrimStart(_)
TrimStart(s) == IF s # <<>> /\ Head(s) = " " THEN TrimStart(Tail(s)) ELSE s

RECURSIVE TrimEnd(_)
TrimEnd(s) ==
  IF s # <<>> /\ s[Len(s)] = " " THEN TrimEnd(SubSeq(s, 1, Len(s) - 1)) ELSE s

\* String.prototype.trim
Trim(s) == TrimEnd(TrimStart(s))

RECURSIVE Flatten(_)
Flatten(ds) == IF ds = <<>> THEN <<>> ELSE Head(ds) \o Flatten(Tail(ds))

RECURSIVE LogSize(_)
\* the characters held in a transcript log
LogSize(log) == IF log = <<>> THEN 0 ELSE Len(Head(log).text) + LogSize(Tail(log))

Event(name, done, threw) == [ev |-> name, done |-> done, threw |-> threw]

\* a LiveServerMessage: audio is the duration of its chunk (0: no inlineData)
Msg(d, it, ot, tc, ir) ==
  [audio |-> d, inputText |-> it, outputText |-> ot, turnComplete |-> tc,
   interrupted |-> ir]

CtlMsgs == {Msg(d, <<>>, <<>>, FALSE, ir) : d \in 0..MaxDur, ir \in BOOLEAN}
             \ {Msg(0, <<>>, <<>>, FALSE, FALSE)}
\* the same with chunks of one duration
UnitMsgs == {m \in CtlMsgs : m.audio <= 1}
TextMsgs == {Msg(0, it, ot, tc, FALSE) : it \in InDeltas, ot \in OutDeltas,
                                         tc \in BOOLEAN}

\* messages carrying a user delta, a turn-complete flag, both or neither
DeltaMsgs == {m \in TextMsgs : m.inputText \in {<<>>, <<"a">>} /\ m.outputText = <<>>}

\* messages carrying an audio chunk, with or without a user delta and a
\* turn-complete flag
MixedMsgs == {Msg(1, it, <<>>, tc, FALSE) : it \in {<<>>, <<"a">>}, tc \in BOOLEAN}

\* ------------------------------------------------- the resources, as a record
Res ==
  [sources |-> sourcesRef, ended |-> endedPending, next |-> nextStartTimeRef,
   stream |-> mediaStreamRef, live |-> liveStreams,
   proc |-> scriptProcessorRef, procs |-> liveProcs,
   inCtx |-> inputAudioContextRef, outCtx |-> outputAudioContextRef,
   open |-> openContexts, last |-> lastEnd]

SetRes(r) ==
  /\ sourcesRef' = r.sources
  /\ endedPending' = r.ended
  /\ nextStartTimeRef' = r.next
  /\ mediaStreamRef' = r.stream
  /\ liveStreams' = r.live
  /\ scriptProcessorRef' = r.proc
  /\ liveProcs' = r.procs
  /\ inputAudioContextRef' = r.inCtx
  /\ outputAudioContextRef' = r.outCtx
  /\ openContexts' = r.open
  /\ lastEnd' = r.last

\* every source is stopped (its 'ended' event is queued) and deleted
stopAllPlayback(r) ==
  [r EXCEPT !.ended = @ \cup r.sources, !.sources = {}, !.next = 0,
            !.last = 0]

cleanUpAudio(r) ==
  LET r1 == stopAllPlayback(r) IN
  [r1 EXCEPT !.live = @ \ {r.stream}, !.stream = 0,
             !.procs = @ \ {r.proc}, !.proc = 0,
             !.open = @ \ {<<r.inCtx, "in">>, <<r.outCtx, "out">>},
             !.inCtx = 0, !.outCtx = 0]

RECURSIVE Times(_, _)
\* cleanUpAudio run by each of n stop() continuations in turn
Times(n, r) == IF n = 0 THEN r ELSE Times(n - 1, cleanUpAudio(r))

\* session.close(): a throwing close leaves the transport as it was
CloseSession(s, k, threw) ==
  IF threw THEN s
  ELSE [s EXCEPT ![k] = IF @ = "open" THEN "closing" ELSE @]

\* ---------------------------------------------------------------- Init
Init ==
  /\ status = "idle"
  /\ transcript = <<>>
  /\ errorMessage = ""
  /\ sessionPromiseRef = 0
  /\ inputAudioContextRef = 0
  /\ outputAudioContextRef = 0
  /\ mediaStreamRef = 0
  /\ scriptProcessorRef = 0
  /\ sourcesRef = {}
  /\ nextStartTimeRef = 0
  /\ lastEnd = 0
  /\ currentInputTranscriptionRef = <<>>
  /\ currentOutputTranscriptionRef = <<>>
  /\ mounted = TRUE
  /\ nConv = 0
  /\ phase = [k \in Conv |-> "none"]
  /\ closureStatus = [k \in Conv |-> "idle"]
  /\ handle = [k \in Conv |-> "none"]
  /\ sess = [k \in Conv |-> "none"]
  /\ stopsPending = [k \in Conv |-> 0]
  /\ inflight = <<>>
  /\ endedPending = {}
  /\ liveStreams = {}
  /\ liveProcs = {}
  /\ openContexts = {}
  /\ srcCount = 0
  /\ clock = 0
  /\ uncaught = FALSE
  /\ turn = [inp |-> <<>>, out |-> <<>>, sealed |-> FALSE]
  /\ lastEv = Event("init", 0, FALSE)
  /\ captured = 0
  /\ outbox = [k \in Conv |-> <<>>]
  /\ sentOn = [k \in Conv |-> <<>>]
  /\ closeCalls = [k \in Conv |-> 0]


\* ------------------------------------------------------- stopConversation
\* the stop() call finds no promise, or one already settled: its await resumes
\* in the same task, so the whole of stopConversation runs as one step
StopRunsThrough == sessionPromiseRef = 0 \/ handle[sessionPromiseRef] # "pending"

\* session.close() is reached by this call
StopCloses == sessionPromiseRef # 0 /\ handle[sessionPromiseRef] = "resolved"

CloseOutcomes == IF StopCloses THEN BOOLEAN ELSE {FALSE}

\* a variant of stopConversation with cleanUpAudio() moved inside the try block
stopConversation_CleanupInsideTry(threw) ==
  /\ status' = "idle"
  /\ closeCalls' = IF StopCloses
                     THEN [closeCalls EXCEPT ![sessionPromiseRef] = @ + 1]
                     ELSE closeCalls
  /\ uncaught' = uncaught
  /\ IF sessionPromiseRef = 0
       THEN /\ SetRes(cleanUpAudio(Res))
            /\ UNCHANGED <<sess, sessionPromiseRef, stopsPending>>
       ELSE IF handle[sessionPromiseRef] = "pending"
         THEN /\ stopsPending[sessionPromiseRef] < MaxStops
              /\ stopsPending' =
                   [stopsPending EXCEPT ![sessionPromiseRef] = @ + 1]
              /\ UNCHANGED <<sess, sessionPromiseRef, resVars>>
         ELSE /\ sess' = IF handle[sessionPromiseRef] = "resolved"
                           THEN CloseSession(sess, sessionPromiseRef, threw)
                           ELSE sess
              /\ sessionPromiseRef' = 0
              /\ IF threw \/ handle[sessionPromiseRef] = "rejected"
                   THEN UNCHANGED resVars
                   ELSE SetRes(cleanUpAudio(Res))
              /\ UNCHANGED stopsPending

\* a variant of stopConversation without the try/catch around the await and close
stopConversation_NoCatch(threw) ==
  /\ status' = "idle"
  /\ closeCalls' = IF StopCloses
                     THEN [closeCalls EXCEPT ![sessionPromiseRef] = @ + 1]
                     ELSE closeCalls
  /\ IF sessionPromiseRef = 0
       THEN /\ SetRes(cleanUpAudio(Res))
            /\ UNCHANGED <<sess, sessionPromiseRef, stopsPending, uncaught>>
       ELSE IF handle[sessionPromiseRef] = "pending"
         THEN /\ stopsPending[sessionPromiseRef] < MaxStops
              /\ stopsPending' =
                   [stopsPending EXCEPT ![sessionPromiseRef] = @ + 1]
              /\ UNCHANGED <<sess, sessionPromiseRef, resVars, uncaught>>
         ELSE IF threw \/ handle[sessionPromiseRef] = "rejected"
           THEN /\ uncaught' = TRUE
                /\ UNCHANGED <<sess, sessionPromiseRef, stopsPending, resVars>>
           ELSE /\ sess' = CloseSession(sess, sessionPromiseRef, threw)
                /\ sessionPromiseRef' = 0
                /\ SetRes(cleanUpAudio(Res))
                /\ UNCHANGED <<stopsPending, uncaught>>

\* stopConversation, lines 72-84: status', uncaught', sess', sessionPromiseRef',
\* stopsPending' and the resources
stopConversation(threw) ==
  /\ status' = "idle"
  /\ closeCalls' = IF StopCloses
                     THEN [closeCalls EXCEPT ![sessionPromiseRef] = @ + 1]
                     ELSE closeCalls
  /\ uncaught' = uncaught
  /\ IF sessionPromiseRef = 0
       THEN /\ SetRes(cleanUpAudio(Res))
            /\ UNCHANGED <<sess, sessionPromiseRef, stopsPending>>
       ELSE IF handle[sessionPromiseRef] = "pending"
         THEN \* suspended at line 76 until the promise settles
              /\ stopsPending[sessionPromiseRef] < MaxStops
              /\ stopsPending' =
                   [stopsPending EXCEPT ![sessionPromiseRef] = @ + 1]
              /\ UNCHANGED <<sess, sessionPromiseRef, resVars>>
         ELSE /\ sess' = IF handle[sessionPromiseRef] = "resolved"
                           THEN CloseSession(sess, sessionPromiseRef, threw)
                           ELSE sess
              /\ sessionPromiseRef' = 0
              /\ SetRes(cleanUpAudio(Res))
              /\ UNCHANGED stopsPending

\* the stop button, shown while status is listening or speaking
UserStop ==
  /\ mounted
  /\ status \in {"listening", "speaking"}
  /\ \E threw \in CloseOutcomes :
       /\ stopConversation(threw)
       /\ lastEv' = Event("stop", IF StopRunsThrough THEN 1 ELSE 0, threw)
  /\ UNCHANGED <<transcript, errorMessage, currentInputTranscriptionRef,
                 currentOutputTranscriptionRef, mounted, nConv, phase,
                 closureStatus, handle, inflight, srcCount, clock, turn,
                 sendVars>>

\* the unmount effect's cleanup
Unmount ==
  /\ mounted
  /\ mounted' = FALSE
  /\ \E threw \in CloseOutcomes :
       /\ stopConversation(threw)
       /\ lastEv' = Event("unmount", IF StopRunsThrough THEN 1 ELSE 0, threw)
  /\ UNCHANGED <<transcript, errorMessage, currentInputTranscriptionRef,
                 currentOutputTranscriptionRef, nConv, phase, closureStatus,
                 handle, inflight, srcCount, clock, turn, sendVars>>

\* ------------------------------------------------------ startConversation
\* the start button, shown while status is idle or error
StartClick ==
  /\ mounted
  /\ status \in {"idle", "error"}
  /\ nConv < MaxConv
  /\ nConv' = nConv + 1
  /\ transcript' = <<>>
  /\ errorMessage' = ""
  /\ status' = "connecting"
  /\ phase' = [phase EXCEPT ![nConv + 1] = "awaitMic"]
  /\ closureStatus' = [closureStatus EXCEPT ![nConv + 1] = status]
  /\ lastEv' = Event("start", 0, FALSE)
  /\ UNCHANGED <<sessionPromiseRef, currentInputTranscriptionRef,
                 currentOutputTranscriptionRef, resVars, mounted, handle, sess,
                 stopsPending, inflight, srcCount, clock, uncaught, turn,
                 sendVars, closeCalls>>

\* where the synchronous part after getUserMedia throws, if it does
ThrowAt == {"none", "ai", "connect"}

\* getUserMedia resolved: lines 94-107, and the catch when one of them throws
MicGranted(k, t) ==
  /\ phase[k] = "awaitMic"
  /\ phase' = [phase EXCEPT ![k] = "done"]
  /\ mediaStreamRef' = k
  /\ liveStreams' = liveStreams \cup {k}
  /\ IF t = "ai"
       THEN UNCHANGED <<inputAudioContextRef, outputAudioContextRef,
                        openContexts, lastEnd>>
       ELSE /\ inputAudioContextRef' = k
            /\ outputAudioContextRef' = k
            /\ openContexts' = openContexts \cup {<<k, "in">>, <<k, "out">>}
  /\ IF t = "none"
       THEN /\ sess' = [sess EXCEPT ![k] = "connecting"]
            /\ handle' = [handle EXCEPT ![k] = "pending"]
            /\ sessionPromiseRef' = k
            /\ UNCHANGED <<status, errorMessage>>
            /\ lastEv' = Event("connect", 0, FALSE)
       ELSE /\ errorMessage' = "start"
            /\ status' = "error"
            /\ UNCHANGED <<sess, handle, sessionPromiseRef>>
            /\ lastEv' = Event("startthrow", 0, FALSE)
  /\ UNCHANGED <<transcript, currentInputTranscriptionRef,
                 currentOutputTranscriptionRef, scriptProcessorRef, sourcesRef,
                 nextStartTimeRef, endedPending, liveProcs, mounted, nConv,
                 closureStatus, stopsPending, inflight, srcCount, clock,
                 uncaught, turn, lastEnd, sendVars, closeCalls>>

\* getUserMedia rejected: the catch, lines 208-213
MicDenied(k) ==
  /\ phase[k] = "awaitMic"
  /\ phase' = [phase EXCEPT ![k] = "done"]
  /\ errorMessage' = "start"
  /\ status' = "error"
  /\ lastEv' = Event("micdenied", 0, FALSE)
  /\ UNCHANGED <<transcript, sessionPromiseRef, currentInputTranscriptionRef,
                 currentOutputTranscriptionRef, resVars, mounted, nConv,
                 closureStatus, handle, sess, stopsPending, inflight, srcCount,
                 clock, uncaught, turn, sendVars, closeCalls>>

\* ------------------------------------------------- the session promise settles
\* the continuations of the stop() calls awaiting promise k, lines 77-83, run
\* one after the other as the promise settles; s is the transport state by then
ResumeStops(k, s, threw) ==
  IF stopsPending[k] = 0
    THEN /\ sess' = s
         /\ UNCHANGED <<sessionPromiseRef, stopsPending, resVars, closeCalls>>
    ELSE /\ sess' = IF handle'[k] = "resolved" THEN CloseSession(s, k, threw)
                                               ELSE s
         /\ closeCalls' = IF handle'[k] = "resolved"
                            THEN [closeCalls EXCEPT ![k] = @ + stopsPending[k]]
                            ELSE closeCalls
         /\ sessionPromiseRef' = 0
         /\ stopsPending' = [stopsPending EXCEPT ![k] = 0]
         /\ SetRes(Times(stopsPending[k], Res))

HandleResolve(k) ==
  /\ handle[k] = "pending"
  /\ sess[k] \in {"open", "closed"}
  /\ handle' = [handle EXCEPT ![k] = "resolved"]
  /\ sentOn' = [sentOn EXCEPT ![k] = @ \o outbox[k]]
  /\ outbox' = [outbox EXCEPT ![k] = <<>>]
  /\ UNCHANGED captured
  /\ \E threw \in (IF stopsPending[k] > 0 THEN BOOLEAN ELSE {FALSE}) :
       /\ ResumeStops(k, sess, threw)
       /\ lastEv' = Event("resolve", stopsPending[k], threw)
  /\ UNCHANGED <<status, transcript, errorMessage, currentInputTranscriptionRef,
                 currentOutputTranscriptionRef, mounted, nConv, phase,
                 closureStatus, inflight, srcCount, clock, uncaught, turn>>

\* the connection fails before it opens: the promise rejects; nothing in
\* startConversation awaits it or attaches a catch
ConnectFail(k) ==
  /\ handle[k] = "pending"
  /\ sess[k] = "connecting"
  /\ handle' = [handle EXCEPT ![k] = "rejected"]
  /\ outbox' = [outbox EXCEPT ![k] = <<>>]
  /\ UNCHANGED <<captured, sentOn>>
  /\ ResumeStops(k, [sess EXCEPT ![k] = "failed"], FALSE)
  /\ uncaught' = (uncaught \/ stopsPending[k] = 0)
  /\ lastEv' = Event("connectfail", stopsPending[k], FALSE)
  /\ UNCHANGED <<status, transcript, errorMessage, currentInputTranscriptionRef,
                 currentOutputTranscriptionRef, mounted, nConv, phase,
                 closureStatus, inflight, srcCount, clock, turn>>


\* ------------------------------------------------------ transport callbacks
\* onopen, lines 112-141
OnOpen(k) ==
  /\ sess[k] = "connecting"
  /\ sess' = [sess EXCEPT ![k] = "open"]
  /\ status' = "listening"
  /\ IF inputAudioContextRef = 0
       THEN \* inputAudioContextRef.current! is null: TypeError at line 114
            /\ uncaught' = TRUE
            /\ UNCHANGED <<scriptProcessorRef, liveProcs>>
       ELSE /\ scriptProcessorRef' = k
            /\ liveProcs' = liveProcs \cup {k}
            /\ UNCHANGED uncaught
  /\ lastEv' = Event("onopen", 0, FALSE)
  /\ UNCHANGED <<transcript, errorMessage, sessionPromiseRef,
                 currentInputTranscriptionRef, currentOutputTranscriptionRef,
                 inputAudioContextRef, outputAudioContextRef, mediaStreamRef,
                 sourcesRef, nextStartTimeRef, endedPending, liveStreams,
                 openContexts, mounted, nConv, phase, closureStatus, handle,
                 stopsPending, inflight, srcCount, clock, turn, lastEnd,
                 sendVars, closeCalls>>

\* a variant of SendsOn that reads sessionPromiseRef.current when the block is
\* captured
SendsOn_CurrentRef(p) == sessionPromiseRef

\* the session promise an audio block of processor p is sent on: the local
\* sessionPromise of the startConversation call that created the processor
SendsOn(p) == p

\* onaudioprocess, lines 121-138: the block is handed to the session once the
\* promise has resolved, at once when it already has, never when it rejected
onaudioprocess(p) ==
  /\ p \in liveProcs
  /\ captured < MaxCapture
  /\ captured' = captured + 1
  /\ LET t == SendsOn(p)
         block == <<p, captured + 1>>
     IN IF t = 0 \/ handle[t] \notin {"pending", "resolved"}
          THEN UNCHANGED <<outbox, sentOn>>
          ELSE IF handle[t] = "pending"
            THEN /\ outbox' = [outbox EXCEPT ![t] = Append(@, block)]
                 /\ UNCHANGED sentOn
            ELSE /\ sentOn' = [sentOn EXCEPT ![t] = Append(@, block)]
                 /\ UNCHANGED outbox
  /\ lastEv' = Event("capture", 0, FALSE)
  /\ UNCHANGED <<progVars, resVars, mounted, nConv, phase, closureStatus,
                 handle, sess, stopsPending, inflight, srcCount, clock,
                 uncaught, turn, closeCalls>>

\* a variant of SealedEntries without the if (fullInput) / if (fullOutput) tests
SealedEntries_NoEmptyCheck(fullInput, fullOutput) ==
  <<[speaker |-> "You", text |-> fullInput],
    [speaker |-> "Teacher", text |-> fullOutput]>>

\* a variant of SealedEntries with the two setTranscript calls swapped
SealedEntries_TeacherFirst(fullInput, fullOutput) ==
  (IF fullOutput # <<>> THEN <<[speaker |-> "Teacher", text |-> fullOutput]>>
                        ELSE <<>>)
  \o (IF fullInput # <<>> THEN <<[speaker |-> "You", text |-> fullInput]>>
                          ELSE <<>>)

\* the entries the two setTranscript calls of lines 177-182 append
SealedEntries(fullInput, fullOutput) ==
  (IF fullInput # <<>> THEN <<[speaker |-> "You", text |-> fullInput]>>
                       ELSE <<>>)
  \o (IF fullOutput # <<>> THEN <<[speaker |-> "Teacher", text |-> fullOutput]>>
                           ELSE <<>>)

\* the record of the turn once message m is handled
Received(m) ==
  LET open == IF turn.sealed THEN [inp |-> <<>>, out |-> <<>>] ELSE turn
  IN [inp |-> IF m.inputText = <<>> THEN open.inp
                                    ELSE Append(open.inp, m.inputText),
      out |-> IF m.outputText = <<>> THEN open.out
                                     ELSE Append(open.out, m.outputText),
      sealed |-> m.turnComplete]

\* the name under which lastEv records the handling of message m
Handled(m, plain) ==
  IF m.turnComplete THEN "sealed"
  ELSE IF m.interrupted THEN "interrupted" ELSE plain

\* lines 166-190 of onmessage, run on resources r: the transcriptions, the
\* turn-complete flag, the interrupted flag
HandleRest(m, r) ==
  LET inBuf == currentInputTranscriptionRef \o m.inputText
      outBuf == currentOutputTranscriptionRef \o m.outputText
      added == SealedEntries(Trim(inBuf), Trim(outBuf))
  IN /\ LogSize(transcript) + Len(inBuf) + Len(outBuf) <= MaxChars
     /\ IF m.turnComplete
          THEN /\ transcript' = transcript \o added
               /\ currentInputTranscriptionRef' = <<>>
               /\ currentOutputTranscriptionRef' = <<>>
          ELSE /\ transcript' = transcript
               /\ currentInputTranscriptionRef' = inBuf
               /\ currentOutputTranscriptionRef' = outBuf
     /\ turn' = Received(m)
     /\ SetRes(IF m.interrupted THEN stopAllPlayback(r) ELSE r)

\* onmessage, lines 142-191, up to its await (line 150) when it has one
OnMessage(k, m) ==
  /\ sess[k] \in {"open", "closing"}
  /\ IF m.audio > 0 /\ outputAudioContextRef # 0
       THEN /\ status' = "speaking"
            /\ nextStartTimeRef' = Max(nextStartTimeRef, clock)
            /\ inflight' = Append(inflight, [m |-> m, ctx |-> outputAudioContextRef])
            /\ UNCHANGED <<transcript, currentInputTranscriptionRef,
                           currentOutputTranscriptionRef, turn,
                           inputAudioContextRef, outputAudioContextRef,
                           mediaStreamRef, scriptProcessorRef, sourcesRef,
                           endedPending, liveStreams, liveProcs, openContexts, lastEnd>>
       ELSE /\ status' = IF m.audio > 0 THEN "speaking" ELSE status
            /\ HandleRest(m, Res)
            /\ UNCHANGED inflight
  /\ lastEv' = Event(IF m.audio > 0 /\ outputAudioContextRef # 0
                       THEN "suspended" ELSE Handled(m, "onmessage"), 0, FALSE)
  /\ UNCHANGED <<errorMessage, sessionPromiseRef, mounted, nConv, phase,
                 closureStatus, handle, sess, stopsPending, srcCount, clock,
                 uncaught, sendVars, closeCalls>>

\* decodeAudioData rejected, or decode threw: the handler ends at line 150 with
\* nothing around it to catch, and the promise onmessage returned rejects
DecodeFail(i) ==
  /\ i \in 1..Len(inflight)
  /\ inflight' = SubSeq(inflight, 1, i - 1) \o SubSeq(inflight, i + 1, Len(inflight))
  /\ uncaught' = TRUE
  /\ lastEv' = Event("decodefail", 0, FALSE)
  /\ UNCHANGED <<progVars, resVars, mounted, nConv, phase, closureStatus,
                 handle, sess, stopsPending, srcCount, clock, turn,
                 sendVars, closeCalls>>

\* decodeAudioData resolved: lines 151-163, then the rest of the handler
DecodeDone(i) ==
  /\ i \in 1..Len(inflight)
  /\ LET e == inflight[i]
         s == srcCount + 1
         r == [Res EXCEPT !.sources = @ \cup {s}, !.next = @ + e.m.audio,
                          !.last = nextStartTimeRef + e.m.audio]
     IN /\ srcCount' = s
        /\ inflight' = SubSeq(inflight, 1, i - 1) \o SubSeq(inflight, i + 1, Len(inflight))
        /\ HandleRest(e.m, r)
        /\ lastEv' = Event(Handled(e.m, "decoded"), 0, FALSE)
  /\ UNCHANGED <<status, errorMessage, sessionPromiseRef, mounted, nConv, phase,
                 closureStatus, handle, sess, stopsPending, clock, uncaught,
                 sendVars, closeCalls>>

\* the 'ended' listener of a source, lines 154-159: the source played to its
\* end, or was stopped by stopAllPlayback
EndedEvent(s) ==
  /\ s \in sourcesRef \cup endedPending
  /\ sourcesRef' = sourcesRef \ {s}
  /\ endedPending' = endedPending \ {s}
  /\ status' = IF sourcesRef \ {s} = {} THEN "listening" ELSE status
  /\ lastEv' = Event("ended", 0, FALSE)
  /\ UNCHANGED <<transcript, errorMessage, sessionPromiseRef,
                 currentInputTranscriptionRef, currentOutputTranscriptionRef,
                 inputAudioContextRef, outputAudioContextRef, mediaStreamRef,
                 scriptProcessorRef, nextStartTimeRef, liveStreams, liveProcs,
                 openContexts, mounted, nConv, phase, closureStatus, handle,
                 sess, stopsPending, inflight, srcCount, clock, uncaught,
                 turn, lastEnd, sendVars, closeCalls>>

\* onerror, lines 192-197
OnError(k) ==
  /\ sess[k] \in {"connecting", "open", "closing"}
  /\ errorMessage' = "session"
  /\ \E threw \in CloseOutcomes :
       /\ stopConversation(threw)     \* overwrites the setStatus('error') before it
       /\ lastEv' = Event("onerror", IF StopRunsThrough THEN 1 ELSE 0, threw)
  /\ UNCHANGED <<transcript, currentInputTranscriptionRef,
                 currentOutputTranscriptionRef, mounted, nConv, phase,
                 closureStatus, handle, inflight, srcCount, clock, turn,
                 sendVars>>

\* onclose, lines 198-204: status there is the one startConversation closed over
OnClose(k) ==
  /\ sess[k] \in {"open", "closing"}
  /\ sess' = [sess EXCEPT ![k] = "closed"]
  /\ SetRes(cleanUpAudio(Res))
  /\ status' = IF closureStatus[k] # "idle" THEN "idle" ELSE status
  /\ lastEv' = Event("onclose", 0, FALSE)
  /\ UNCHANGED <<transcript, errorMessage, sessionPromiseRef,
                 currentInputTranscriptionRef, currentOutputTranscriptionRef,
                 mounted, nConv, phase, closureStatus, handle, stopsPending,
                 inflight, srcCount, clock, uncaught, turn,
                 sendVars, closeCalls>>

\* the output context's clock advances
Tick ==
  /\ clock < MaxClock
  /\ clock' = clock + 1
  /\ lastEv' = Event("tick", 0, FALSE)
  /\ UNCHANGED <<progVars, resVars, mounted, nConv, phase, closureStatus,
                 handle, sess, stopsPending, inflight, srcCount, uncaught,
                 turn, sendVars, closeCalls>>

\* ------------------------------------------------------------ specifications
GetUserMediaResolves == \E k \in Conv, t \in ThrowAt : MicGranted(k, t)
GetUserMediaRejects == \E k \in Conv : MicDenied(k)
PromiseResolves == \E k \in Conv : HandleResolve(k)
PromiseRejects == \E k \in Conv : ConnectFail(k)
TransportOpen == \E k \in Conv : OnOpen(k)
TransportError == \E k \in Conv : OnError(k)
TransportClose == \E k \in Conv : OnClose(k)
\* at most n audio chunks are delivered in one run
Budget(m, n) == m.audio > 0 => srcCount + Len(inflight) < n
\* messages carrying an audio chunk and nothing else
ChunkMsgs == {m \in CtlMsgs : ~m.interrupted}
ControlMessage ==
  \E k \in Conv, m \in CtlMsgs : Budget(m, MaxSrc) /\ OnMessage(k, m)
UnitMessage ==
  \E k \in Conv, m \in UnitMsgs : Budget(m, MaxSrc) /\ OnMessage(k, m)
TextMessage == \E k \in Conv, m \in TextMsgs : OnMessage(k, m)
AudioMessage ==
  \E k \in Conv, m \in CtlMsgs : Budget(m, MaxChunks) /\ OnMessage(k, m)
ChunkMessage ==
  \E k \in Conv, m \in ChunkMsgs : Budget(m, MaxChunks) /\ OnMessage(k, m)
DeltaMessage == \E k \in Conv, m \in DeltaMsgs : OnMessage(k, m)
MixedMessage ==
  \E k \in Conv, m \in MixedMsgs : Budget(m, MaxChunks) /\ OnMessage(k, m)
AudioProcess == \E p \in Conv : onaudioprocess(p)
DecodeResolves == \E i \in 1..Len(inflight) : DecodeDone(i)
DecodeRejects == \E i \in 1..Len(inflight) : DecodeFail(i)
PlaybackEnded == \E s \in sourcesRef \cup endedPending : EndedEvent(s)

\* the lifecycle: start, stop, unmount and every transport event, with
\* messages that carry audio and interruption flags
Next ==
  \/ StartClick
  \/ UserStop
  \/ Unmount
  \/ GetUserMediaResolves
  \/ GetUserMediaRejects
  \/ PromiseResolves
  \/ PromiseRejects
  \/ TransportOpen
  \/ TransportError
  \/ TransportClose
  \/ ControlMessage
  \/ DecodeResolves
  \/ PlaybackEnded
  \/ Tick

Spec == Init /\ [][Next]_vars

\* the same lifecycle with fewer restarts
NextSingle ==
  \/ nConv < MaxSingle /\ StartClick
  \/ UserStop
  \/ Unmount
  \/ GetUserMediaResolves
  \/ GetUserMediaRejects
  \/ PromiseResolves
  \/ PromiseRejects
  \/ TransportOpen
  \/ TransportError
  \/ TransportClose
  \/ UnitMessage
  \/ DecodeResolves
  \/ PlaybackEnded

SpecSingle == Init /\ [][NextSingle]_vars

\* conversations started, stopped and restarted while the microphone is
\* captured, with no inbound message
NextCapture ==
  \/ StartClick
  \/ UserStop
  \/ GetUserMediaResolves
  \/ PromiseResolves
  \/ PromiseRejects
  \/ TransportOpen
  \/ TransportClose
  \/ AudioProcess

SpecCapture == Init /\ [][NextCapture]_vars

\* one conversation that is never stopped, receiving audio chunks and
\* interruption flags while the output clock advances
NextAudio ==
  \/ nConv < MaxSingle /\ StartClick
  \/ GetUserMediaResolves
  \/ TransportOpen
  \/ AudioMessage
  \/ DecodeResolves
  \/ DecodeRejects
  \/ PlaybackEnded
  \/ Tick

SpecAudio == Init /\ [][NextAudio]_vars

\* one conversation that is never stopped nor interrupted, receiving audio
\* chunks while the output clock advances
NextPlay ==
  \/ nConv < MaxSingle /\ StartClick
  \/ GetUserMediaResolves
  \/ TransportOpen
  \/ ChunkMessage
  \/ DecodeResolves
  \/ PlaybackEnded
  \/ Tick

SpecPlay == Init /\ [][NextPlay]_vars

\* one conversation receiving transcription deltas and turn-complete flags in
\* messages with and without an audio chunk
NextOrder ==
  \/ nConv < MaxSingle /\ StartClick
  \/ GetUserMediaResolves
  \/ TransportOpen
  \/ DeltaMessage
  \/ MixedMessage
  \/ DecodeResolves

SpecOrder == Init /\ [][NextOrder]_vars

\* conversations stopped and restarted while transcription deltas and
\* turn-complete flags arrive
NextRestart ==
  \/ StartClick
  \/ UserStop
  \/ GetUserMediaResolves
  \/ PromiseResolves
  \/ TransportOpen
  \/ TransportClose
  \/ DeltaMessage

SpecRestart == Init /\ [][NextRestart]_vars

\* one conversation receiving transcription deltas and turn-complete flags
NextText ==
  \/ nConv < MaxSingle /\ StartClick
  \/ GetUserMediaResolves
  \/ TransportOpen
  \/ TextMessage

SpecText == Init /\ [][NextText]_vars


\* ------------------------------------------------------------------ claims
StopCalls == {"stop", "unmount", "onerror"}

\* the transports that were connected and have not fired their close event
LiveSessions == {k \in Conv : sess[k] \in {"connecting", "open", "closing"}}

\* no continuation of startConversation, stopConversation or onmessage is pending
Quiescent ==
  /\ \A k \in Conv : phase[k] # "awaitMic" /\ stopsPending[k] = 0
  /\ inflight = <<>>

\* C1: a transport error arriving while status is listening, once the stop it
\* drives has run to completion, leaves status error, an error message, no
\* active source and the microphone stream released.
C1_ErrorWhileListening ==
  [][(lastEv'.ev = "onerror" /\ lastEv'.done = 1 /\ status = "listening" /\ mounted)
       => /\ status' = "error"
          /\ errorMessage' # ""
          /\ sourcesRef' = {}
          /\ mediaStreamRef' = 0
          /\ mediaStreamRef \notin liveStreams']_vars

\* C2: a transport close event releases the microphone stream and the capture
\* and playback resources, and sets status idle when it was not idle already.
C2_CloseReleasesAndIdles ==
  [][(lastEv'.ev = "onclose" /\ mounted)
       => /\ mediaStreamRef' = 0
          /\ mediaStreamRef \notin liveStreams'
          /\ scriptProcessorRef' = 0
          /\ inputAudioContextRef' = 0
          /\ outputAudioContextRef' = 0
          /\ (status # "idle" => status' = "idle")]_vars

\* C3: every call of stop(), whatever the state it is made in (a stop already
\* awaiting the session promise, status already idle, the close event already
\* fired), leaves status idle and raises nothing, and the continuation of a
\* suspended stop() raises nothing and does not touch status.
C3_StopIdempotent ==
  [][/\ lastEv'.ev \in StopCalls => (status' = "idle" /\ uncaught' = uncaught)
     /\ (lastEv'.ev \in {"resolve", "connectfail"} /\ lastEv'.done > 0)
          => (status' = status /\ uncaught' = uncaught)]_vars

\* a second stop() has been called while the first awaits the session promise
C3_Witness ==
  /\ lastEv.ev \in StopCalls
  /\ status = "idle"
  /\ \E k \in Conv : stopsPending[k] >= 2

\* C4: an interruption flag handled while status is speaking stops every
\* active source and empties the set, and status is listening once the
\* 'ended' events this queued, if any, are handled.
C4_InterruptionWhileSpeaking ==
  [][(lastEv'.ev = "interrupted" /\ status = "speaking")
       => /\ sourcesRef' = {}
          /\ sourcesRef \subseteq endedPending'
          /\ (endedPending' = {} => status' = "listening")]_vars

\* C5: at most one session is live at any time.
C5_AtMostOneLiveSession == Cardinality(LiveSessions) <= 1

\* C6: in every quiescent state where status is idle, no microphone stream is
\* held and no session is connecting or open.
C6_IdleHoldsNothing ==
  (Quiescent /\ status = "idle")
    => /\ liveStreams = {}
       /\ \A k \in Conv : sess[k] \notin {"connecting", "open"}

\* C7: a failed start attempt (microphone refused, the synchronous part
\* throwing, the session promise rejecting) leaves status error, an error
\* message, and no session of that attempt.
C7_FailedStartIsError ==
  [][(lastEv'.ev \in {"micdenied", "startthrow", "connectfail"} /\ mounted)
       => /\ status' = "error"
          /\ errorMessage' # ""
          /\ LiveSessions' \subseteq LiveSessions]_vars

Blank(ds) == Trim(Flatten(ds)) = <<>>

\* C10: every entry of the transcript log has a non-empty trimmed text; a
\* turn-complete flag with both buffers blank appends nothing, and with one
\* buffer blank appends exactly one entry, of the other speaker.
C10_NoBlankEntries ==
  /\ [](\A i \in 1..Len(transcript) :
          transcript[i].text # <<>> /\ Trim(transcript[i].text) = transcript[i].text)
  /\ [][lastEv'.ev = "sealed"
          => /\ (Blank(turn'.inp) /\ Blank(turn'.out)) => transcript' = transcript
             /\ (Blank(turn'.inp) /\ ~Blank(turn'.out))
                  => /\ Len(transcript') = Len(transcript) + 1
                     /\ transcript'[Len(transcript')].speaker = "Teacher"
             /\ (~Blank(turn'.inp) /\ Blank(turn'.out))
                  => /\ Len(transcript') = Len(transcript) + 1
                     /\ transcript'[Len(transcript')].speaker = "You"]_vars

\* a turn whose user buffer held only white space was sealed into one entry
C10_Witness ==
  /\ lastEv.ev = "sealed"
  /\ turn.inp = << <<" ">> >>
  /\ Len(transcript) = 1
  /\ transcript[1].speaker = "Teacher"

\* inflight without its i-th entry
Without(i) == SubSeq(inflight, 1, i - 1) \o SubSeq(inflight, i + 1, Len(inflight))

\* C11: when the decode of a chunk fails, the rest of its message is still
\* processed (an interrupted flag stops the sources and resets the playback
\* clock), and status is not left at speaking by the dropped chunk: it is
\* listening when nothing else is decoding, playing or ending.
C11_DecodeFailureAbsorbed ==
  [][lastEv'.ev = "decodefail"
       => \A i \in 1..Len(inflight) :
            inflight' = Without(i)
              => /\ inflight[i].m.interrupted
                      => (sourcesRef' = {} /\ nextStartTimeRef' = 0)
                 /\ (Len(inflight) = 1 /\ sourcesRef = {} /\ endedPending = {})
                      => status' = "listening"]_vars

\* C12: with no interruption and the decodes resolving in arrival order, a
\* chunk is started at or after the end of the chunk before it, at the later
\* of that end and the clock's reading when it is scheduled, and right at that
\* end when the clock has not passed it.
C12_GaplessSchedule ==
  [][(lastEv'.ev = "decoded" /\ inflight' = Tail(inflight))
       => LET startAt == nextStartTimeRef
          IN /\ startAt >= lastEnd
             /\ startAt = Max(lastEnd, clock)
             /\ clock <= lastEnd => startAt = lastEnd]_vars

\* C13: right after a message with the interrupted flag is handled no source
\* is active and the playback clock is 0, and a chunk scheduled next, its
\* decode already in flight or not, is started no earlier than the clock's
\* reading at that moment.
C13_InterruptResetsSchedule ==
  [][/\ lastEv'.ev = "interrupted"
          => (sourcesRef' = {} /\ nextStartTimeRef' = 0)
     /\ (lastEv.ev = "interrupted" /\ srcCount' = srcCount + 1)
          => nextStartTimeRef >= clock]_vars

\* C14: the arrival of an audio chunk sets status speaking, the 'ended' event
\* that empties the source set with no chunk still decoding sets it
\* listening, and while a session is open status is never listening with a
\* source in the set.
C14_SpeakingWhilePlaying ==
  /\ [][/\ (Len(inflight') > Len(inflight)) => (status' = "speaking")
        /\ (lastEv'.ev = "ended" /\ sourcesRef' = {} /\ inflight = <<>>)
             => (status' = "listening")]_vars
  /\ []((status = "listening" /\ \E k \in Conv : sess[k] = "open")
          => sourcesRef = {})

\* the handling of a message ran to its end in this step
Completes == lastEv'.ev \in {"onmessage", "decoded", "sealed", "interrupted"}

\* the messages still suspended that arrived before the one this step completed
Earlier ==
  IF inflight' = inflight THEN inflight
  ELSE LET i == CHOOSE j \in 1..Len(inflight) : inflight' = Without(j)
       IN SubSeq(inflight, 1, i - 1)

\* C15: a message's deltas are appended and its turn-complete flag is applied
\* only when every message that arrived before it has had its own applied: no
\* delta is appended and no turn is sealed while an earlier message is
\* suspended with a delta or a turn-complete flag not applied yet.
C15_ArrivalOrder ==
  [][(/\ Completes
      /\ \/ lastEv'.ev = "sealed"
         \/ currentInputTranscriptionRef' # currentInputTranscriptionRef
         \/ currentOutputTranscriptionRef' # currentOutputTranscriptionRef)
       => \A j \in 1..Len(Earlier) :
            /\ Earlier[j].m.inputText = <<>>
            /\ Earlier[j].m.outputText = <<>>
            /\ ~Earlier[j].m.turnComplete]_vars

\* C16: every audio block sent, or waiting to be sent, on the session of a
\* conversation was captured by that conversation's processor, and the blocks
\* of a session are in capture order, those captured before the promise
\* resolved included.
C16_SentOnOwnSessionInOrder ==
  \A k \in Conv :
    LET blocks == sentOn[k] \o outbox[k]
    IN /\ \A i \in 1..Len(blocks) : blocks[i][1] = k
       /\ \A i \in 1..(Len(blocks) - 1) : blocks[i][2] < blocks[i + 1][2]
       /\ outbox[k] # <<>> => handle[k] = "pending"

\* after a stop and a restart, with sessionPromiseRef holding the second
\* conversation's promise, the first conversation's processor has just
\* captured its second block, and both wait for the first session's promise
C16_Witness ==
  /\ lastEv.ev = "capture"
  /\ sessionPromiseRef = 2
  /\ liveProcs = {1}
  /\ Len(outbox[1]) = 2
  /\ outbox[2] = <<>>

\* C17: session.close() is called at most once on each session.
C17_ClosedAtMostOnce == \A k \in Conv : closeCalls[k] <= 1

\* C18: once status is idle, only the start button takes it away from idle:
\* no 'ended' event, inbound message, transport open or transport close does.
C18_IdleUntilStart ==
  [][(status = "idle" /\ mounted /\ lastEv'.ev # "start") => status' = "idle"]_vars

\* the step is an event of conversation k: its transport closes or its session
\* promise settles (and resumes the stop() calls awaiting it)
EventOf(k) ==
  \/ sess[k] # "closed" /\ sess'[k] = "closed"
  \/ handle[k] = "pending" /\ handle'[k] # "pending"

\* C19: an event of one conversation leaves alone the microphone stream, the
\* audio contexts and the session promise that belong to another one.
C19_OwnResourcesOnly ==
  [][\A k \in Conv :
       EventOf(k)
         => /\ mediaStreamRef \notin {0, k}
                 => (mediaStreamRef' = mediaStreamRef /\ mediaStreamRef \in liveStreams')
            /\ inputAudioContextRef \notin {0, k}
                 => /\ inputAudioContextRef' = inputAudioContextRef
                    /\ <<inputAudioContextRef, "in">> \in openContexts'
            /\ outputAudioContextRef \notin {0, k}
                 => /\ outputAudioContextRef' = outputAudioContextRef
                    /\ <<outputAudioContextRef, "out">> \in openContexts'
            /\ sessionPromiseRef \notin {0, k}
                 => sessionPromiseRef' = sessionPromiseRef]_vars

\* C20: the start button leaves the transcript log and both open buffers
\* empty.
C20_StartsClean ==
  [][lastEv'.ev = "start"
       => /\ transcript' = <<>>
          /\ currentInputTranscriptionRef' = <<>>
          /\ currentOutputTranscriptionRef' = <<>>]_vars

====
